---------------------------- MODULE Spec2Model ----------------------------
(***************************************************************************)
(* FHIR Patient API of the therapieland project: the flat Patient row      *)
(* (patients/models.py), the PatientSerializer that maps it to and from    *)
(* the nested FHIR Patient document (patients/serializer.py), the          *)
(* FHIRValidator (patients/validators.py), the five request handlers       *)
(* (patients/views.py) and the routes that lead to them                    *)
(* (patients/urls.py).                                                     *)
(*                                                                         *)
(* Python dicts are functions with a set of string keys as their domain    *)
(* (a key that is absent is not in the DOMAIN), Python lists are           *)
(* sequences, and the empty string and the empty list are the falsy        *)
(* values of the presence checks.  String values are opaque tokens: the    *)
(* format validators of the model fields (max_length, EmailField,          *)
(* URLField) accept every token used here.                                 *)
(***************************************************************************)
EXTENDS Integers, Sequences, FiniteSets, TLC

VARIABLES
    store,      \* the patients table: primary key -> Patient row
    issued,     \* primary keys uuid.uuid4 has returned so far
    deleted,    \* history: ids for which delete_patient answered 204
    req,        \* the request handled last
    resp,       \* its response: status and body
    rec,        \* codec run: the Patient row under conversion
    wire,       \* codec run: the FHIR document
    fields,     \* codec run: the result of to_internal_value
    merged,     \* codec run: rec after ModelSerializer.update
    partialFlag, \* codec run: the serializer's partial flag
    pc,         \* codec run: position
    flight,     \* overlapping requests: each worker's request, position,
                \* the values its queries returned, and its response
    http        \* HTTP run: the request line received last and the view
                \* the URL resolver found for it

vars ==
    <<store, issued, deleted, req, resp, rec, wire, fields, merged, partialFlag, pc,
      flight, http>>

(***************************************************************************)
(* Bounds of the model.                                                    *)
(***************************************************************************)
MaxPatients == 2

\* the longest name, telecom, address or identifier array of a decoded document
MaxElems == 2

\* the requests that overlap in time
MaxRequests == 2

(***************************************************************************)
(* Python helpers.                                                         *)
(***************************************************************************)
EmptyDict == [k \in {} |-> ""]

\* dict.get(key, default)
DictGet(d, k, default) == IF k \in DOMAIN d THEN d[k] ELSE default

\* what dict.get(key) returns for an absent key, as far as == 'phone' sees it
NoneValue == "None"

Max(S) == CHOOSE x \in S : \A y \in S : y <= x

\* the dict restricted to the keys in ks
Restrict(d, ks) == [k \in (DOMAIN d) \cap ks |-> d[k]]

(***************************************************************************)
(* models.py: the Patient row.                                             *)
(***************************************************************************)
NAME_USE_CHOICES == {"usual", "official", "temp", "nickname", "anonymous", "old", "maiden"}
GENDER_CHOICES == {"male", "female", "other", "unknown"}
ADDRESS_USE_CHOICES == {"home", "work", "temp", "old", "billing"}
IDENTIFIER_USE_CHOICES == {"usual", "official", "temp", "secondary"}

\* the columns a client can write (every column but id, resource_type and
\* the two timestamps, which Meta.read_only_fields lists)
WritableFields ==
    {"identifier_use", "identifier_system", "identifier_value",
     "name_use", "family_name", "given_names", "prefix", "suffix",
     "telecom_phone", "telecom_email", "gender", "birth_date",
     "address_use", "address_line", "address_city", "address_district",
     "address_state", "address_postal_code", "address_country", "active"}

\* the columns without default and without blank=True
RequiredFields == {"family_name", "gender", "birth_date"}

\* the column defaults (default=..., and '' for a blank CharField)
FieldDefaults ==
    [identifier_use |-> "", identifier_system |-> "", identifier_value |-> "",
     name_use |-> "usual", given_names |-> <<>>, prefix |-> "", suffix |-> "",
     telecom_phone |-> "", telecom_email |-> "",
     address_use |-> "", address_line |-> <<>>, address_city |-> "",
     address_district |-> "", address_state |-> "", address_postal_code |-> "",
     address_country |-> "", active |-> TRUE]

(***************************************************************************)
(* Calendar dates: datetime.date values and their ISO-8601 strings.        *)
(***************************************************************************)
Date(y, m, d) == [year |-> y, month |-> m, day |-> d]

InvalidDate == [year |-> 0, month |-> 0, day |-> 0]

\* date.isoformat()
isoformat(d) ==
    CASE d = Date(1990, 5, 15) -> "1990-05-15"
      [] d = Date(1992, 1, 1)  -> "1992-01-01"
      [] d = Date(1995, 5, 15) -> "1995-05-15"
      [] OTHER                 -> "0000-00-00"

\* DateField.to_internal_value: the date an ISO string denotes, InvalidDate
\* for a string that is no date
parse_date(s) ==
    CASE s = "1990-05-15" -> Date(1990, 5, 15)
      [] s = "1992-01-01" -> Date(1992, 1, 1)
      [] s = "1995-05-15" -> Date(1995, 5, 15)
      [] OTHER            -> InvalidDate

(***************************************************************************)
(* serializer.py: PatientSerializer.to_representation.                     *)
(***************************************************************************)
encode_name(instance) ==
    <<  [use |-> instance.name_use,
         family |-> instance.family_name,
         given |-> instance.given_names]
        @@ (IF instance.prefix # "" THEN "prefix" :> <<instance.prefix>> ELSE EmptyDict)
        @@ (IF instance.suffix # "" THEN "suffix" :> <<instance.suffix>> ELSE EmptyDict) >>

\* mutant: the email entry is appended before the phone entry
encode_telecom_email_first(instance) ==
    (IF instance.telecom_email # ""
       THEN << [system |-> "email", value |-> instance.telecom_email, use |-> "home"] >>
       ELSE << >>)
    \o
    (IF instance.telecom_phone # ""
       THEN << [system |-> "phone", value |-> instance.telecom_phone, use |-> "home"] >>
       ELSE << >>)

encode_telecom(instance) ==
    (IF instance.telecom_phone # ""
       THEN << [system |-> "phone", value |-> instance.telecom_phone, use |-> "home"] >>
       ELSE << >>)
    \o
    (IF instance.telecom_email # ""
       THEN << [system |-> "email", value |-> instance.telecom_email, use |-> "home"] >>
       ELSE << >>)

\* the condition of the address block: any([line, city, state, postal_code, country])
address_any(instance) ==
    \/ instance.address_line # << >>
    \/ instance.address_city # ""
    \/ instance.address_state # ""
    \/ instance.address_postal_code # ""
    \/ instance.address_country # ""

encode_address(instance) ==
    IF address_any(instance)
      THEN << (IF instance.address_use # "" THEN "use" :> instance.address_use ELSE EmptyDict)
              @@ (IF instance.address_line # << >> THEN "line" :> instance.address_line ELSE EmptyDict)
              @@ (IF instance.address_city # "" THEN "city" :> instance.address_city ELSE EmptyDict)
              @@ (IF instance.address_district # "" THEN "district" :> instance.address_district ELSE EmptyDict)
              @@ (IF instance.address_state # "" THEN "state" :> instance.address_state ELSE EmptyDict)
              @@ (IF instance.address_postal_code # "" THEN "postalCode" :> instance.address_postal_code ELSE EmptyDict)
              @@ (IF instance.address_country # "" THEN "country" :> instance.address_country ELSE EmptyDict) >>
      ELSE << >>

encode_identifier(instance) ==
    IF instance.identifier_value # ""
      THEN << [value |-> instance.identifier_value]
              @@ (IF instance.identifier_use # "" THEN "use" :> instance.identifier_use ELSE EmptyDict)
              @@ (IF instance.identifier_system # "" THEN "system" :> instance.identifier_system ELSE EmptyDict) >>
      ELSE << >>

to_representation(instance) ==
    [resourceType |-> "Patient",
     id |-> ToString(instance.id),
     active |-> instance.active,
     name |-> encode_name(instance),
     telecom |-> encode_telecom(instance),
     gender |-> instance.gender,
     birthDate |-> isoformat(instance.birth_date),
     address |-> encode_address(instance),
     identifier |-> encode_identifier(instance)]

(***************************************************************************)
(* serializer.py: PatientSerializer.to_internal_value, first the           *)
(* extraction of internal_data from the document.                          *)
(***************************************************************************)
decode_active(data) ==
    IF "active" \in DOMAIN data THEN "active" :> data.active ELSE EmptyDict

decode_name(data) ==
    IF "name" \in DOMAIN data /\ Len(data.name) > 0
      THEN LET name == data.name[1] IN
           [name_use |-> DictGet(name, "use", "usual"),
            family_name |-> DictGet(name, "family", ""),
            given_names |-> DictGet(name, "given", << >>)]
           @@ (IF "prefix" \in DOMAIN name /\ Len(name.prefix) > 0
                 THEN "prefix" :> name.prefix[1] ELSE EmptyDict)
           @@ (IF "suffix" \in DOMAIN name /\ Len(name.suffix) > 0
                 THEN "suffix" :> name.suffix[1] ELSE EmptyDict)
      ELSE EmptyDict

\* the for loop over data['telecom']: every matching entry assigns, so the
\* value that stays is the one of the last entry of that system
telecom_of(telecom, system) ==
    { i \in 1..Len(telecom) : DictGet(telecom[i], "system", NoneValue) = system }

decode_telecom(data) ==
    IF "telecom" \in DOMAIN data
      THEN LET phones == telecom_of(data.telecom, "phone")
               emails == telecom_of(data.telecom, "email")
           IN (IF phones # {}
                 THEN "telecom_phone" :> DictGet(data.telecom[Max(phones)], "value", "")
                 ELSE EmptyDict)
              @@ (IF emails # {}
                 THEN "telecom_email" :> DictGet(data.telecom[Max(emails)], "value", "")
                 ELSE EmptyDict)
      ELSE EmptyDict

decode_gender_birthDate(data) ==
    (IF "gender" \in DOMAIN data THEN "gender" :> data.gender ELSE EmptyDict)
    @@ (IF "birthDate" \in DOMAIN data THEN "birth_date" :> data.birthDate ELSE EmptyDict)

\* mutant: only the sub-fields the address entry carries are assigned
decode_address_merge(data) ==
    IF "address" \in DOMAIN data /\ Len(data.address) > 0
      THEN LET address == data.address[1] IN
           (IF "use" \in DOMAIN address THEN "address_use" :> address.use ELSE EmptyDict)
           @@ (IF "line" \in DOMAIN address THEN "address_line" :> address.line ELSE EmptyDict)
           @@ (IF "city" \in DOMAIN address THEN "address_city" :> address.city ELSE EmptyDict)
           @@ (IF "district" \in DOMAIN address THEN "address_district" :> address.district ELSE EmptyDict)
           @@ (IF "state" \in DOMAIN address THEN "address_state" :> address.state ELSE EmptyDict)
           @@ (IF "postalCode" \in DOMAIN address THEN "address_postal_code" :> address.postalCode ELSE EmptyDict)
           @@ (IF "country" \in DOMAIN address THEN "address_country" :> address.country ELSE EmptyDict)
      ELSE EmptyDict

\* mutant: the postal code is read under the column's name, not the wire name
decode_address_postal_code_key(data) ==
    IF "address" \in DOMAIN data /\ Len(data.address) > 0
      THEN LET address == data.address[1] IN
           [address_use |-> DictGet(address, "use", ""),
            address_line |-> DictGet(address, "line", << >>),
            address_city |-> DictGet(address, "city", ""),
            address_district |-> DictGet(address, "district", ""),
            address_state |-> DictGet(address, "state", ""),
            address_postal_code |-> DictGet(address, "postal_code", ""),
            address_country |-> DictGet(address, "country", "")]
      ELSE EmptyDict

decode_address(data) ==
    IF "address" \in DOMAIN data /\ Len(data.address) > 0
      THEN LET address == data.address[1] IN
           [address_use |-> DictGet(address, "use", ""),
            address_line |-> DictGet(address, "line", << >>),
            address_city |-> DictGet(address, "city", ""),
            address_district |-> DictGet(address, "district", ""),
            address_state |-> DictGet(address, "state", ""),
            address_postal_code |-> DictGet(address, "postalCode", ""),
            address_country |-> DictGet(address, "country", "")]
      ELSE EmptyDict

\* mutant: the last identifier of the array is read, not the first
decode_identifier_last(data) ==
    IF "identifier" \in DOMAIN data /\ Len(data.identifier) > 0
      THEN LET identifier == data.identifier[Len(data.identifier)] IN
           [identifier_use |-> DictGet(identifier, "use", ""),
            identifier_system |-> DictGet(identifier, "system", ""),
            identifier_value |-> DictGet(identifier, "value", "")]
      ELSE EmptyDict

decode_identifier(data) ==
    IF "identifier" \in DOMAIN data /\ Len(data.identifier) > 0
      THEN LET identifier == data.identifier[1] IN
           [identifier_use |-> DictGet(identifier, "use", ""),
            identifier_system |-> DictGet(identifier, "system", ""),
            identifier_value |-> DictGet(identifier, "value", "")]
      ELSE EmptyDict

internal_data(data) ==
    decode_active(data) @@ decode_name(data) @@ decode_telecom(data)
    @@ decode_gender_birthDate(data) @@ decode_address(data)
    @@ decode_identifier(data)

(***************************************************************************)
(* super().to_internal_value(internal_data): the ModelSerializer runs the  *)
(* field built from each writable column of models.py over the key of the  *)
(* same name.  A key that is absent is skipped on a partial run and is an  *)
(* error ("This field is required.") for a required column otherwise.      *)
(***************************************************************************)
field_error(f, v) ==
    CASE f = "name_use"       -> v \notin NAME_USE_CHOICES
      [] f = "gender"         -> v \notin GENDER_CHOICES
      [] f = "address_use"    -> v # "" /\ v \notin ADDRESS_USE_CHOICES
      [] f = "identifier_use" -> v # "" /\ v \notin IDENTIFIER_USE_CHOICES
      [] f = "family_name"    -> v = ""
      [] f = "birth_date"     -> parse_date(v) = InvalidDate
      [] OTHER                -> FALSE

field_value(f, v) == IF f = "birth_date" THEN parse_date(v) ELSE v

\* UUIDField.to_internal_value: the primary key a string denotes
parse_uuid(s) == CHOOSE i \in 1..(MaxPatients + 1) : ToString(i) = s

\* mutant: id is read from the document and is a writable column
to_internal_value_id_writable(data, partial) ==
    LET internal == internal_data(data)
                    @@ (IF "id" \in DOMAIN data
                          THEN "id" :> parse_uuid(data.id) ELSE EmptyDict)
        present  == (DOMAIN internal) \cap (WritableFields \cup {"id"})
        errors   == { f \in present : field_error(f, internal[f]) }
                    \cup (IF partial THEN {} ELSE RequiredFields \ DOMAIN internal)
    IN [errors |-> errors,
        validated |-> IF errors = {}
                        THEN [f \in present |-> field_value(f, internal[f])]
                        ELSE EmptyDict]

\* [errors: the fields that failed, validated: the validated data]
to_internal_value(data, partial) ==
    LET internal == internal_data(data)
        present  == (DOMAIN internal) \cap WritableFields
        errors   == { f \in present : field_error(f, internal[f]) }
                    \cup (IF partial THEN {} ELSE RequiredFields \ DOMAIN internal)
    IN [errors |-> errors,
        validated |-> IF errors = {}
                        THEN [f \in present |-> field_value(f, internal[f])]
                        ELSE EmptyDict]

\* mutant: the row is replaced, a column that is not validated takes its default
serializer_update_replace(instance, validated) ==
    [f \in DOMAIN instance |->
        IF f \in DOMAIN validated THEN validated[f]
        ELSE IF f \in DOMAIN FieldDefaults THEN FieldDefaults[f]
        ELSE instance[f]]

\* ModelSerializer.update: setattr(instance, attr, value) for each validated
\* attribute
serializer_update(instance, validated) ==
    [f \in DOMAIN instance |->
        IF f \in DOMAIN validated THEN validated[f] ELSE instance[f]]

\* ModelSerializer.create: Patient(validated_data), the columns left out
\* take their defaults, id the uuid4 drawn for the row and created_at the
\* time of the insert
serializer_create(validated, id, now) ==
    validated @@ [id |-> id, created_at |-> now] @@ FieldDefaults

(***************************************************************************)
(* validators.py: FHIRValidator.validate_patient.  FHIRPatient(data)   *)
(* raises ValueError for a document that is no FHIR Patient (here: a       *)
(* birthDate that is no date; gender is a free code for the FHIR model);   *)
(* both that and a missing name, gender or birthDate end in a              *)
(* rest_framework ValidationError.                                         *)
(***************************************************************************)
fhir_patient_fails(data) ==
    "birthDate" \in DOMAIN data /\ parse_date(data.birthDate) = InvalidDate

validate_patient(data) ==
    IF fhir_patient_fails(data) THEN "ValidationError"
    ELSE IF ~("name" \in DOMAIN data /\ Len(data.name) > 0) THEN "ValidationError"
    ELSE IF "gender" \notin DOMAIN data THEN "ValidationError"
    ELSE IF "birthDate" \notin DOMAIN data THEN "ValidationError"
    ELSE "ok"

(***************************************************************************)
(* views.py and utils.py: the bodies of the error responses.               *)
(***************************************************************************)
create_operation_outcome(severity, code, details) ==
    [resourceType |-> "OperationOutcome",
     issue |-> << [severity |-> severity, code |-> code, diagnostics |-> details] >>]

\* the handler DRF calls for an exception that is an APIException or Http404
\* (NotAuthenticated, PermissionDenied, Http404), taken to be the one the
\* project settings register as EXCEPTION_HANDLER
fhir_exception_handler(exc) ==
    [resourceType |-> "OperationOutcome",
     issue |-> << [severity |-> "error", code |-> "processing", diagnostics |-> {exc}] >>]

\* a response without a body (204), and Django's page for an exception that
\* no handler takes
NoBody == EmptyDict

ServerErrorPage == [error_page |-> "Server Error (500)"]

(***************************************************************************)
(* The patients table.                                                     *)
(***************************************************************************)
\* the primary keys uuid4 can still return; uuid4 does not repeat a key
Ids == 1..MaxPatients

uuid4 == Ids \ issued

\* timezone.now() at an insert, as a logical clock that ticks with each insert
now == Cardinality(issued) + 1

\* Model.save(): UPDATE the row of the instance's primary key, INSERT it
\* when there is none
save(instance) == (instance.id :> instance) @@ store

\* mutant: the DELETE has no WHERE clause
delete_all(id) == EmptyDict

\* mutant: the row is kept
delete_nothing(id) == store

\* Model.delete()
delete(id) == [i \in (DOMAIN store) \ {id} |-> store[i]]

\* Patient.objects.all() under Meta.ordering = ['-created_at']
objects_all ==
    [k \in 1..Cardinality(DOMAIN store) |->
        store[CHOOSE i \in DOMAIN store :
                Cardinality({ j \in DOMAIN store :
                    store[j].created_at > store[i].created_at }) = k - 1]]

(***************************************************************************)
(* permissions.py and the decorators of create_patient: JWTAuthentication, *)
(* IsAuthenticated, IsFHIRAPIUser.  A principal is "anonymous" (no valid   *)
(* token), "user" (authenticated, not in fhir_api_users) or                *)
(* "fhir_api_user".                                                        *)
(***************************************************************************)
Principals == {"anonymous", "user", "fhir_api_user"}

is_authenticated(principal) == principal # "anonymous"

\* mutant: the group is not looked up
has_permission_any_user(principal) == is_authenticated(principal)

has_permission(principal) ==
    is_authenticated(principal) /\ principal = "fhir_api_user"

(***************************************************************************)
(* views.py: the request handlers.  Each handles one request atomically.   *)
(***************************************************************************)
Request(op, principal, id, data) ==
    [op |-> op, principal |-> principal, id |-> id, doc |-> data]

Response(body, status) == [status |-> status, body |-> body]

\* "except serializers.ValidationError" names drf_spectacular.serializers
\* (line 3 of views.py), which has no ValidationError: evaluating the except
\* clause raises AttributeError, which no handler takes
create_patient(principal, data) ==
    /\ req' = Request("create", principal, 0, data)
    /\ deleted' = deleted
    /\ IF ~is_authenticated(principal)
         THEN /\ resp' = Response(fhir_exception_handler("NotAuthenticated"), 401)
              /\ UNCHANGED <<store, issued>>
       ELSE IF ~has_permission(principal)
         THEN /\ resp' = Response(fhir_exception_handler("PermissionDenied"), 403)
              /\ UNCHANGED <<store, issued>>
       ELSE IF validate_patient(data) # "ok"
         THEN /\ resp' = Response(ServerErrorPage, 500)
              /\ UNCHANGED <<store, issued>>
       ELSE LET serializer == to_internal_value(data, FALSE) IN
            IF serializer.errors = {}
              THEN \E id \in uuid4 :
                     LET patient == serializer_create(serializer.validated, id, now) IN
                     /\ store' = save(patient)
                     /\ issued' = issued \cup {id}
                     /\ resp' = Response(to_representation(patient), 201)
              ELSE /\ resp' = Response(
                          create_operation_outcome("error", "invalid", serializer.errors), 400)
                   /\ UNCHANGED <<store, issued>>
    /\ UNCHANGED <<rec, wire, fields, merged, partialFlag, pc, flight, http>>

list_patients ==
    /\ req' = Request("list", "", 0, EmptyDict)
    /\ resp' = Response(
          [resourceType |-> "Bundle",
           id |-> "patient-search-results",
           type |-> "searchset",
           total |-> Cardinality(DOMAIN store),
           entry |-> [k \in DOMAIN objects_all |->
                        [resource |-> to_representation(objects_all[k])]]],
          200)
    /\ UNCHANGED <<store, issued, deleted>>
    /\ UNCHANGED <<rec, wire, fields, merged, partialFlag, pc, flight, http>>

get_patient(patient_id) ==
    /\ req' = Request("get", "", patient_id, EmptyDict)
    /\ IF patient_id \in DOMAIN store
         THEN resp' = Response(to_representation(store[patient_id]), 200)
         ELSE resp' = Response(fhir_exception_handler("Http404"), 404)
    /\ UNCHANGED <<store, issued, deleted>>
    /\ UNCHANGED <<rec, wire, fields, merged, partialFlag, pc, flight, http>>

\* mutant: a row that does not exist is created from the document
update_patient_upsert(patient_id, data) ==
    /\ req' = Request("update", "", patient_id, data)
    /\ LET serializer == to_internal_value(data, TRUE) IN
       IF serializer.errors = {}
         THEN LET patient ==
                    IF patient_id \in DOMAIN store
                      THEN serializer_update(store[patient_id], serializer.validated)
                      ELSE serializer_create(serializer.validated, patient_id, now)
              IN /\ store' = save(patient)
                 /\ resp' = Response(to_representation(patient), 200)
         ELSE /\ resp' = Response([f \in serializer.errors |-> {"invalid"}], 400)
              /\ store' = store
    /\ UNCHANGED <<issued, deleted>>
    /\ UNCHANGED <<rec, wire, fields, merged, partialFlag, pc, flight, http>>

update_patient(patient_id, data) ==
    /\ req' = Request("update", "", patient_id, data)
    /\ IF patient_id \in DOMAIN store
         THEN LET serializer == to_internal_value(data, TRUE) IN
              IF serializer.errors = {}
                THEN LET patient == serializer_update(store[patient_id], serializer.validated) IN
                     /\ store' = save(patient)
                     /\ resp' = Response(to_representation(patient), 200)
                ELSE /\ resp' = Response([f \in serializer.errors |-> {"invalid"}], 400)
                     /\ store' = store
         ELSE /\ resp' = Response(fhir_exception_handler("Http404"), 404)
              /\ store' = store
    /\ UNCHANGED <<issued, deleted>>
    /\ UNCHANGED <<rec, wire, fields, merged, partialFlag, pc, flight, http>>

delete_patient(patient_id) ==
    /\ req' = Request("delete", "", patient_id, EmptyDict)
    /\ IF patient_id \in DOMAIN store
         THEN /\ store' = delete(patient_id)
              /\ deleted' = deleted \cup {patient_id}
              /\ resp' = Response(NoBody, 204)
         ELSE /\ resp' = Response(fhir_exception_handler("Http404"), 404)
              /\ UNCHANGED <<store, deleted>>
    /\ UNCHANGED issued
    /\ UNCHANGED <<rec, wire, fields, merged, partialFlag, pc, flight, http>>

(***************************************************************************)
(* The rows and documents the codec is run on.  Every row is one that      *)
(* create_patient stores for a suitable document: a required name, gender  *)
(* and birth date, and each optional column either empty or set.           *)
(***************************************************************************)
SetAddress ==
    [address_use |-> "home", address_line |-> <<"123 Main St", "Apt 4B">>,
     address_city |-> "New York", address_district |-> "Kings",
     address_state |-> "NY", address_postal_code |-> "10001",
     address_country |-> "USA"]

SetIdentifier ==
    [identifier_use |-> "official",
     identifier_system |-> "http://hospital.example.org/patients",
     identifier_value |-> "12345"]

\* the columns of full that are in ks set, the others at their defaults
Keep(full, ks) ==
    [f \in DOMAIN full |-> IF f \in ks THEN full[f] ELSE FieldDefaults[f]]

AddressShapes ==
    { Keep(SetAddress, ks) : ks \in SUBSET DOMAIN SetAddress }

IdentifierShapes ==
    { Keep(SetIdentifier, ks) : ks \in SUBSET DOMAIN SetIdentifier }

NameShapes ==
    { [name_use |-> "usual", family_name |-> "Doe", given_names |-> << >>,
       prefix |-> "", suffix |-> ""],
      [name_use |-> "official", family_name |-> "Doe",
       given_names |-> <<"John", "Michael">>, prefix |-> "Mr.", suffix |-> ""],
      [name_use |-> "official", family_name |-> "Smith",
       given_names |-> <<"Will">>, prefix |-> "", suffix |-> "Jr."],
      [name_use |-> "maiden", family_name |-> "Johnson",
       given_names |-> <<"Robert">>, prefix |-> "Dr.", suffix |-> "III"] }

TelecomShapes ==
    [telecom_phone : {"", "+1-555-123-4567"},
     telecom_email : {"", "john.doe@example.com"}]

DemographicShapes ==
    { [gender |-> "male", birth_date |-> Date(1990, 5, 15), active |-> TRUE],
      [gender |-> "female", birth_date |-> Date(1992, 1, 1), active |-> FALSE] }

CodecRecords ==
    { [id |-> 1, created_at |-> 1] @@ n @@ t @@ a @@ i @@ d :
        n \in NameShapes, t \in TelecomShapes, a \in AddressShapes,
        i \in IdentifierShapes, d \in DemographicShapes }

\* the sequences over S of length at most n
SeqUpTo(S, n) == UNION { [1..k -> S] : k \in 0..n }

NameEntries ==
    { [use |-> "official", family |-> "Doe", given |-> <<"John">>, prefix |-> <<"Mr.">>],
      [family |-> "Smith"] }

TelecomEntries ==
    { [system |-> "phone", value |-> "+1-555-123-4567", use |-> "home"],
      [system |-> "phone", value |-> "+31-20-555-0000"],
      [system |-> "email", value |-> "john.doe@example.com", use |-> "home"] }

AddressEntries ==
    { [use |-> "home", line |-> <<"123 Main St">>, city |-> "New York",
       state |-> "NY", postalCode |-> "10001", country |-> "USA"],
      [city |-> "Boston"] }

IdentifierEntries ==
    { [use |-> "official", system |-> "http://hospital.example.org/patients",
       value |-> "12345"],
      [value |-> "999"] }

\* the dicts {key: array} for the arrays over entries, and the dict without key
ArrayParts(key, entries) ==
    { key :> s : s \in SeqUpTo(entries, MaxElems) } \cup { EmptyDict }

CodecDocuments ==
    { [gender |-> "male", birthDate |-> "1990-05-15"] @@ n @@ t :
        n \in ArrayParts("name", NameEntries),
        t \in ArrayParts("telecom", TelecomEntries) }
    \cup
    { [gender |-> "male", birthDate |-> "1990-05-15",
       name |-> << [family |-> "Doe"] >>] @@ a @@ i :
        a \in ArrayParts("address", AddressEntries),
        i \in ArrayParts("identifier", IdentifierEntries) }

(***************************************************************************)
(* States before any request and before any codec run.                     *)
(***************************************************************************)
NoRequest == [op |-> "none", principal |-> "", id |-> 0, doc |-> EmptyDict]

NoResponse == [status |-> 0, body |-> EmptyDict]

NoFields == [errors |-> {}, validated |-> EmptyDict]

\* a worker that has not taken a request
Workers == 1..MaxRequests

IdleFlight ==
    [op |-> "none", id |-> 0, doc |-> EmptyDict, pc |-> "idle",
     patient |-> EmptyDict, total |-> 0, wrote |-> 0, resp |-> NoResponse]

NoFlights == [w \in Workers |-> IdleFlight]

\* no HTTP request received
NoHttp == [method |-> "", path |-> << >>, principal |-> "", view |-> "none"]

NoRecord == CHOOSE r \in CodecRecords : TRUE

HandlersIdle ==
    /\ store = EmptyDict
    /\ issued = {}
    /\ deleted = {}
    /\ req = NoRequest
    /\ resp = NoResponse
    /\ flight = NoFlights
    /\ http = NoHttp

CodecIdle ==
    /\ rec = NoRecord
    /\ wire = EmptyDict
    /\ fields = NoFields
    /\ merged = NoRecord
    /\ partialFlag = TRUE
    /\ pc = "idle"

(***************************************************************************)
(* The codec run: a row is encoded, the document decoded and the result    *)
(* merged onto the row; or a document is decoded.                          *)
(***************************************************************************)
CodecInit ==
    /\ HandlersIdle
    /\ fields = NoFields
    /\ merged = NoRecord
    /\ partialFlag \in BOOLEAN
    /\ \/ /\ pc = "record"
          /\ rec \in CodecRecords
          /\ wire = EmptyDict
       \/ /\ pc = "document"
          /\ rec = NoRecord
          /\ wire \in CodecDocuments

Encode ==
    /\ pc = "record"
    /\ wire' = to_representation(rec)
    /\ pc' = "encoded"
    /\ UNCHANGED <<store, issued, deleted, req, resp, flight, http, rec, fields, merged, partialFlag>>

Decode ==
    /\ pc \in {"encoded", "document"}
    /\ fields' = to_internal_value(wire, partialFlag)
    /\ pc' = IF pc = "encoded" THEN "decoded" ELSE "parsed"
    /\ UNCHANGED <<store, issued, deleted, req, resp, flight, http, rec, wire, merged, partialFlag>>

Merge ==
    /\ pc = "decoded"
    /\ fields.errors = {}
    /\ merged' = serializer_update(rec, fields.validated)
    /\ pc' = "merged"
    /\ UNCHANGED <<store, issued, deleted, req, resp, flight, http, rec, wire, fields, partialFlag>>

CodecNext == Encode \/ Decode \/ Merge

CodecSpec == CodecInit /\ [][CodecNext]_vars

(***************************************************************************)
(* Properties of the codec, checked under CodecSpec.                       *)
(***************************************************************************)

\* the columns that the FHIR document carries: all but the timestamps
WireColumns(r) == (DOMAIN r) \ {"created_at", "updated_at"}

\* C1: round trip. For every valid row r, the document to_representation
\* produces for r is decoded without error, and merging the decoded fields
\* onto r gives a row equal to r on every column carried on the wire.
C1_RoundTrip ==
    /\ pc = "decoded" => fields.errors = {}
    /\ pc = "merged" => \A f \in WireColumns(rec) : merged[f] = rec[f]

C1_Witness ==
    /\ pc = "merged"
    /\ rec.prefix # "" /\ rec.suffix # ""
    /\ rec.telecom_phone # "" /\ rec.telecom_email = ""
    /\ rec.address_postal_code # "" /\ rec.address_district # ""
    /\ rec.address_city = ""
    /\ rec.identifier_value # "" /\ rec.identifier_system = ""
    /\ rec.active = FALSE

\* the six address columns the address entry is said to depend on
AddressSet(r) ==
    \/ r.address_line # << >>
    \/ r.address_city # ""
    \/ r.address_district # ""
    \/ r.address_state # ""
    \/ r.address_postal_code # ""
    \/ r.address_country # ""

\* key is in the entry, with the value v, exactly if present holds
KeyIff(entry, key, present, v) ==
    IF present THEN key \in DOMAIN entry /\ entry[key] = v
               ELSE key \notin DOMAIN entry

\* C5: the encoded address array has exactly one entry if and only if at
\* least one of addressLine, addressCity, addressDistrict, addressState,
\* addressPostalCode, addressCountry is non-empty, and is empty otherwise;
\* the entry holds every non-empty sub-field under its wire name, and use
\* exactly if addressUse is set.
C5_AddressIffAnySet ==
    pc = "encoded" =>
        IF AddressSet(rec)
          THEN /\ Len(wire.address) = 1
               /\ LET e == wire.address[1] IN
                  /\ KeyIff(e, "use", rec.address_use # "", rec.address_use)
                  /\ KeyIff(e, "line", rec.address_line # << >>, rec.address_line)
                  /\ KeyIff(e, "city", rec.address_city # "", rec.address_city)
                  /\ KeyIff(e, "district", rec.address_district # "", rec.address_district)
                  /\ KeyIff(e, "state", rec.address_state # "", rec.address_state)
                  /\ KeyIff(e, "postalCode", rec.address_postal_code # "", rec.address_postal_code)
                  /\ KeyIff(e, "country", rec.address_country # "", rec.address_country)
          ELSE wire.address = << >>

\* C6: telecom omission. With telecomPhone and telecomEmail both empty the
\* encoded telecom array is empty; with exactly one set it has exactly one
\* entry, of the matching system and with that value; with both set it has
\* exactly two entries, the phone entry before the email entry.
C6_TelecomOmission ==
    pc = "encoded" =>
        LET t == wire.telecom
            phone == rec.telecom_phone
            email == rec.telecom_email
        IN /\ (phone = "" /\ email = "") => t = << >>
           /\ (phone # "" /\ email = "") =>
                 Len(t) = 1 /\ t[1].system = "phone" /\ t[1].value = phone
           /\ (phone = "" /\ email # "") =>
                 Len(t) = 1 /\ t[1].system = "email" /\ t[1].value = email
           /\ (phone # "" /\ email # "") =>
                 /\ Len(t) = 2
                 /\ t[1].system = "phone" /\ t[1].value = phone
                 /\ t[2].system = "email" /\ t[2].value = email

C6_Witness ==
    /\ pc = "encoded"
    /\ rec.telecom_phone # "" /\ rec.telecom_email # ""
    /\ Len(wire.telecom) = 2

\* the array cut to its first element
FirstOnly(s) == IF Len(s) > 0 THEN <<s[1]>> ELSE s

SystemIs(e, system) == "system" \in DOMAIN e /\ e.system = system

Min(S) == CHOOSE x \in S : \A y \in S : x <= y

\* the elements of s at the indices in keep, in their order
KeepAt(s, keep) ==
    [i \in 1..Cardinality(keep) |->
        s[CHOOSE k \in keep : Cardinality({ j \in keep : j <= k }) = i]]

\* the telecom array cut to its first phone entry and its first email entry
FirstTelecom(t) ==
    LET phones == { i \in 1..Len(t) : SystemIs(t[i], "phone") }
        emails == { i \in 1..Len(t) : SystemIs(t[i], "email") }
    IN KeepAt(t, (IF phones # {} THEN {Min(phones)} ELSE {})
                 \cup (IF emails # {} THEN {Min(emails)} ELSE {}))

\* the telecom array cut to its last phone entry and its last email entry
LastTelecom(t) ==
    LET phones == { i \in 1..Len(t) : SystemIs(t[i], "phone") }
        emails == { i \in 1..Len(t) : SystemIs(t[i], "email") }
    IN KeepAt(t, (IF phones # {} THEN {Max(phones)} ELSE {})
                 \cup (IF emails # {} THEN {Max(emails)} ELSE {}))

\* the document with name, address and identifier cut to their first element
CutArrays(doc) ==
    [k \in DOMAIN doc |->
        IF k \in {"name", "address", "identifier"} THEN FirstOnly(doc[k]) ELSE doc[k]]

FirstElements(doc) ==
    LET cut == CutArrays(doc) IN
    [k \in DOMAIN cut |-> IF k = "telecom" THEN FirstTelecom(cut[k]) ELSE cut[k]]

HonoredElements(doc) ==
    LET cut == CutArrays(doc) IN
    [k \in DOMAIN cut |-> IF k = "telecom" THEN LastTelecom(cut[k]) ELSE cut[k]]

\* C7 as stated: the decoded field set of every document is that of the
\* document with name, address and identifier cut to their first element
\* and telecom cut to its first phone and its first email entry.
C7_FirstElementsOnly ==
    pc = "parsed" => fields = to_internal_value(FirstElements(wire), partialFlag)

\* C7 as amended: the decoded field set of every document is that of the
\* document with name, address and identifier cut to their first element
\* and telecom cut to its last phone and its last email entry.
C7_HonoredElementsOnly ==
    pc = "parsed" => fields = to_internal_value(HonoredElements(wire), partialFlag)

C7_Witness ==
    /\ pc = "parsed"
    /\ "telecom" \in DOMAIN wire /\ Len(wire.telecom) = 2
    /\ SystemIs(wire.telecom[1], "phone") /\ SystemIs(wire.telecom[2], "phone")
    /\ wire.telecom[1].value # wire.telecom[2].value
    /\ "name" \in DOMAIN wire /\ Len(wire.name) = 2
    /\ wire.name[1] # wire.name[2]
    /\ fields.errors = {}
    /\ fields.validated.telecom_phone = wire.telecom[2].value

(***************************************************************************)
(* The requests of the API run.  The documents are those of tests.py and   *)
(* variations of them.                                                     *)
(***************************************************************************)
Without(d, k) == Restrict(d, (DOMAIN d) \ {k})

\* valid_patient_data of PatientAPITestCase
ValidPatientData ==
    [resourceType |-> "Patient",
     active |-> TRUE,
     name |-> << [use |-> "official", family |-> "Doe",
                  given |-> <<"John", "Michael">>, prefix |-> <<"Mr.">>] >>,
     telecom |-> << [system |-> "phone", value |-> "+1-555-123-4567", use |-> "home"],
                    [system |-> "email", value |-> "john.doe@example.com", use |-> "home"] >>,
     gender |-> "male",
     birthDate |-> "1990-05-15",
     address |-> << [use |-> "home", line |-> <<"123 Main St", "Apt 4B">>,
                     city |-> "New York", state |-> "NY",
                     postalCode |-> "10001", country |-> "USA"] >>]

\* fhir_data of test_patient_deserialization
MinimalPatientData ==
    [resourceType |-> "Patient",
     name |-> << [use |-> "official", family |-> "Johnson", given |-> <<"Robert">>] >>,
     gender |-> "male",
     birthDate |-> "1995-05-15"]

\* invalid_data of test_create_patient_invalid_data
InvalidData ==
    [resourceType |-> "Patient", gender |-> "invalid_gender", birthDate |-> "1990-05-15"]

\* update_data of test_update_patient
UpdateData ==
    [resourceType |-> "Patient",
     name |-> << [use |-> "official", family |-> "Doe-Updated",
                  given |-> <<"Jane", "Marie">>] >>,
     gender |-> "female",
     birthDate |-> "1992-01-01"]

CreateDocuments ==
    { ValidPatientData,
      MinimalPatientData,
      MinimalPatientData @@ [id |-> ToString(1)],
      InvalidData,
      Without(MinimalPatientData, "name"),
      [name |-> << >>] @@ MinimalPatientData,
      Without(MinimalPatientData, "gender"),
      Without(MinimalPatientData, "birthDate"),
      [name |-> << [given |-> <<"Robert">>] >>] @@ MinimalPatientData,
      [birthDate |-> "15 May 1990"] @@ MinimalPatientData }

\* who sends which document to create_patient
CreateRequests ==
    ({"fhir_api_user"} \X CreateDocuments)
    \cup ({"anonymous", "user"} \X {ValidPatientData})

UpdateDocuments ==
    { UpdateData, [gender |-> "invalid_gender"] }
    \cup { [id |-> ToString(i)] @@ UpdateData : i \in Ids }

Init ==
    /\ HandlersIdle
    /\ CodecIdle

Next ==
    \/ \E r \in CreateRequests : create_patient(r[1], r[2])
    \/ list_patients
    \/ \E id \in Ids : get_patient(id)
    \/ \E id \in Ids, data \in UpdateDocuments : update_patient(id, data)
    \/ \E id \in Ids : delete_patient(id)

Spec == Init /\ [][Next]_vars

(***************************************************************************)
(* urls.py and the api_view decorators: the HTTP surface.  A path is the   *)
(* sequence of its segments below the prefix the patients urls are         *)
(* mounted under; a trailing slash shows as a last, empty segment.         *)
(***************************************************************************)
Methods == {"GET", "POST", "PUT", "DELETE"}

\* the uuid path converter: its regex, and its to_python
uuid_matches(segment) == \E i \in Ids : ToString(i) = segment

uuid_to_python(segment) == CHOOSE i \in Ids : ToString(i) = segment

urlpatterns ==
    << [route |-> <<"Patient">>, view |-> "create_patient"],
       [route |-> <<"Patient">>, view |-> "list_patients"],
       [route |-> <<"Patient", "<uuid:patient_id>">>, view |-> "get_patient"],
       [route |-> <<"Patient", "<uuid:patient_id>", "">>, view |-> "update_patient"],
       [route |-> <<"Patient", "<uuid:patient_id>", "delete">>, view |-> "delete_patient"] >>

\* django.urls.path: the route matches the whole path
route_matches(route, path) ==
    /\ Len(route) = Len(path)
    /\ \A k \in 1..Len(route) :
          IF route[k] = "<uuid:patient_id>" THEN uuid_matches(path[k])
                                            ELSE route[k] = path[k]

\* URLResolver.resolve: the view of the first pattern that matches
resolve(path) ==
    LET hits == { k \in DOMAIN urlpatterns : route_matches(urlpatterns[k].route, path) }
    IN IF hits = {} THEN "Resolver404" ELSE urlpatterns[Min(hits)].view

\* the argument of each view's api_view decorator
http_method_names(view) ==
    CASE view = "create_patient" -> {"POST"}
      [] view = "list_patients"  -> {"GET"}
      [] view = "get_patient"    -> {"GET"}
      [] view = "update_patient" -> {"PUT"}
      [] view = "delete_patient" -> {"DELETE"}

\* Django's page for a path no pattern matches
NotFoundPage == [error_page |-> "Not Found (404)"]

\* The request up to the call of the view function: the URL resolver, then
\* APIView.dispatch, which authenticates and checks the permissions of the
\* view (those of create_patient's decorators) before it looks for the
\* handler of the method.
get_response(method, path, principal) ==
    /\ http = NoHttp \/ req # NoRequest
    /\ LET view == resolve(path) IN
       /\ http' = [method |-> method, path |-> path, principal |-> principal,
                   view |-> view]
       /\ IF view = "Resolver404"
            THEN /\ req' = Request("resolver", principal, 0, EmptyDict)
                 /\ resp' = Response(NotFoundPage, 404)
          ELSE IF method \in http_method_names(view)
            THEN /\ req' = NoRequest
                 /\ resp' = NoResponse
          ELSE IF view = "create_patient" /\ ~is_authenticated(principal)
            THEN /\ req' = Request("create", principal, 0, EmptyDict)
                 /\ resp' = Response(fhir_exception_handler("NotAuthenticated"), 401)
          ELSE IF view = "create_patient" /\ ~has_permission(principal)
            THEN /\ req' = Request("create", principal, 0, EmptyDict)
                 /\ resp' = Response(fhir_exception_handler("PermissionDenied"), 403)
          ELSE /\ req' = Request("method_not_allowed", principal, 0, EmptyDict)
               /\ resp' = Response(fhir_exception_handler("MethodNotAllowed"), 405)
    /\ UNCHANGED <<store, issued, deleted, flight>>
    /\ UNCHANGED <<rec, wire, fields, merged, partialFlag, pc>>

HttpCreateDocuments == { ValidPatientData, InvalidData }

HttpUpdateDocuments == { UpdateData, [gender |-> "invalid_gender"] }

\* the view function the resolver found is called with the converted id
call_view ==
    /\ http.view \notin {"none", "Resolver404"}
    /\ req = NoRequest
    /\ CASE http.view = "create_patient" ->
               \E data \in HttpCreateDocuments : create_patient(http.principal, data)
         [] http.view = "list_patients" -> list_patients
         [] http.view = "get_patient" -> get_patient(uuid_to_python(http.path[2]))
         [] http.view = "update_patient" ->
               \E data \in HttpUpdateDocuments :
                  update_patient(uuid_to_python(http.path[2]), data)
         [] http.view = "delete_patient" -> delete_patient(uuid_to_python(http.path[2]))

\* the request lines sent: every method on every kind of path
HttpPaths ==
    { <<"Patient">> }
    \cup { <<"Patient", i>> : i \in { ToString(k) : k \in Ids } \cup {"not-a-uuid"} }
    \cup { <<"Patient", ToString(k), last>> : k \in Ids, last \in {"", "delete"} }

HttpRequests ==
    (Methods \X { <<"Patient">> } \X Principals)
    \cup (Methods \X (HttpPaths \ { <<"Patient">> }) \X {"fhir_api_user"})

HttpNext ==
    \/ \E r \in HttpRequests : get_response(r[1], r[2], r[3])
    \/ call_view

HttpSpec == Init /\ [][HttpNext]_vars

(***************************************************************************)
(* Overlapping requests.  Each query of a handler is a statement of its    *)
(* own against the table (Django's autocommit), and the statements of      *)
(* requests served at the same time interleave.  A worker serves one       *)
(* request; a step is one query together with the Python code up to the    *)
(* handler's next query or its response.                                   *)
(***************************************************************************)
\* the number of writes made so far, to order them
writes == Cardinality({ v \in Workers : flight[v].wrote > 0 })

Http404Response == Response(fhir_exception_handler("Http404"), 404)

ConcUnchanged == <<issued, req, resp, rec, wire, fields, merged, partialFlag, pc, http>>

\* get_patient: get_object_or_404 and the response
get_patient_select(w, patient_id) ==
    /\ flight[w].pc = "idle"
    /\ flight' = [flight EXCEPT ![w] =
          [@ EXCEPT !.op = "get", !.id = patient_id, !.pc = "done",
                    !.resp = IF patient_id \in DOMAIN store
                               THEN Response(to_representation(store[patient_id]), 200)
                               ELSE Http404Response]]
    /\ UNCHANGED <<store, deleted>>
    /\ UNCHANGED ConcUnchanged

\* update_patient, line 260: get_object_or_404 loads the instance
update_patient_select(w, patient_id, data) ==
    /\ flight[w].pc = "idle"
    /\ flight' = [flight EXCEPT ![w] =
          IF patient_id \in DOMAIN store
            THEN [@ EXCEPT !.op = "update", !.id = patient_id, !.doc = data,
                           !.pc = "selected", !.patient = store[patient_id]]
            ELSE [@ EXCEPT !.op = "update", !.id = patient_id, !.doc = data,
                           !.pc = "done", !.resp = Http404Response]]
    /\ UNCHANGED <<store, deleted>>
    /\ UNCHANGED ConcUnchanged

\* mutant: the merge is made onto the row as it is stored now
update_patient_save_on_current(w) ==
    /\ flight[w].op = "update" /\ flight[w].pc = "selected"
    /\ flight[w].id \in DOMAIN store
    /\ LET serializer == to_internal_value(flight[w].doc, TRUE)
           patient == serializer_update(store[flight[w].id], serializer.validated)
       IN /\ serializer.errors = {}
          /\ store' = save(patient)
          /\ flight' = [flight EXCEPT ![w] =
                [@ EXCEPT !.pc = "done", !.wrote = writes + 1,
                          !.resp = Response(to_representation(patient), 200)]]
    /\ UNCHANGED deleted
    /\ UNCHANGED ConcUnchanged

\* update_patient, lines 261-265: is_valid, then the merge onto the loaded
\* instance and Model.save() of all its columns
update_patient_save(w) ==
    /\ flight[w].op = "update" /\ flight[w].pc = "selected"
    /\ LET serializer == to_internal_value(flight[w].doc, TRUE) IN
       IF serializer.errors = {}
         THEN LET patient == serializer_update(flight[w].patient, serializer.validated) IN
              /\ store' = save(patient)
              /\ flight' = [flight EXCEPT ![w] =
                    [@ EXCEPT !.pc = "done", !.wrote = writes + 1,
                              !.resp = Response(to_representation(patient), 200)]]
         ELSE /\ store' = store
              /\ flight' = [flight EXCEPT ![w] =
                    [@ EXCEPT !.pc = "done",
                              !.resp = Response([f \in serializer.errors |-> {"invalid"}], 400)]]
    /\ UNCHANGED deleted
    /\ UNCHANGED ConcUnchanged

\* delete_patient, line 306
delete_patient_select(w, patient_id) ==
    /\ flight[w].pc = "idle"
    /\ flight' = [flight EXCEPT ![w] =
          IF patient_id \in DOMAIN store
            THEN [@ EXCEPT !.op = "delete", !.id = patient_id,
                           !.pc = "selected", !.patient = store[patient_id]]
            ELSE [@ EXCEPT !.op = "delete", !.id = patient_id,
                           !.pc = "done", !.resp = Http404Response]]
    /\ UNCHANGED <<store, deleted>>
    /\ UNCHANGED ConcUnchanged

\* delete_patient, lines 307-308: Model.delete() and the 204
delete_patient_delete(w) ==
    /\ flight[w].op = "delete" /\ flight[w].pc = "selected"
    /\ store' = delete(flight[w].id)
    /\ deleted' = deleted \cup {flight[w].id}
    /\ flight' = [flight EXCEPT ![w] =
          [@ EXCEPT !.pc = "done", !.resp = Response(NoBody, 204)]]
    /\ UNCHANGED ConcUnchanged

\* list_patients, line 163: patients.count() is a COUNT query
list_patients_count(w) ==
    /\ flight[w].pc = "idle"
    /\ flight' = [flight EXCEPT ![w] =
          [@ EXCEPT !.op = "list", !.pc = "counted",
                    !.total = Cardinality(DOMAIN store)]]
    /\ UNCHANGED <<store, deleted>>
    /\ UNCHANGED ConcUnchanged

\* list_patients, lines 167-173: the iteration is the SELECT
list_patients_fetch(w) ==
    /\ flight[w].op = "list" /\ flight[w].pc = "counted"
    /\ flight' = [flight EXCEPT ![w] =
          [@ EXCEPT !.pc = "done",
                    !.resp = Response(
                        [resourceType |-> "Bundle",
                         id |-> "patient-search-results",
                         type |-> "searchset",
                         total |-> flight[w].total,
                         entry |-> [k \in DOMAIN objects_all |->
                                      [resource |-> to_representation(objects_all[k])]]],
                        200)]]
    /\ UNCHANGED <<store, deleted>>
    /\ UNCHANGED ConcUnchanged

\* the rows stored when the requests arrive, and the documents they carry
ConcStore ==
    [i \in Ids |->
        serializer_create(
            to_internal_value(IF i = 1 THEN ValidPatientData ELSE MinimalPatientData,
                              FALSE).validated, i, i)]

ConcDocuments == { [gender |-> "other"], [active |-> FALSE], [gender |-> "invalid_gender"] }

ConcInit ==
    /\ store = ConcStore
    /\ issued = Ids
    /\ deleted = {}
    /\ req = NoRequest
    /\ resp = NoResponse
    /\ flight = NoFlights
    /\ http = NoHttp
    /\ CodecIdle

ConcNext ==
    \E w \in Workers :
        \/ \E id \in Ids : get_patient_select(w, id)
        \/ \E id \in Ids, data \in ConcDocuments : update_patient_select(w, id, data)
        \/ update_patient_save(w)
        \/ \E id \in Ids : delete_patient_select(w, id)
        \/ delete_patient_delete(w)
        \/ list_patients_count(w)
        \/ list_patients_fetch(w)

ConcSpec == ConcInit /\ [][ConcNext]_vars

(***************************************************************************)
(* The update run: one stored row, one PUT.  The rows are rows             *)
(* create_patient stores; the documents carry any combination of the       *)
(* top-level keys, each with a complete entry, a partial entry or an empty *)
(* array.                                                                  *)
(***************************************************************************)
UpdateRecords ==
    { r \in CodecRecords :
        /\ r.family_name \in {"Doe", "Johnson"}
        /\ (r.telecom_phone = "") = (r.telecom_email = "")
        /\ \E full \in BOOLEAN :
              /\ \A f \in DOMAIN SetAddress : (r[f] = SetAddress[f]) = full
              /\ \A f \in DOMAIN SetIdentifier : (r[f] = SetIdentifier[f]) = full }

NameParts ==
    { EmptyDict,
      [name |-> << >>],
      [name |-> << [use |-> "official", family |-> "Doe-Updated",
                    given |-> <<"Jane", "Marie">>, suffix |-> <<"Jr.">>] >>],
      [name |-> << [family |-> "Doe-Updated"] >>],
      [name |-> << [given |-> <<"Jane">>] >>] }

TelecomParts ==
    { EmptyDict,
      [telecom |-> << >>],
      [telecom |-> << [system |-> "phone", value |-> "+31-20-555-0000"] >>],
      [telecom |-> << [system |-> "email", value |-> "jane@example.com", use |-> "work"] >>],
      [telecom |-> << [system |-> "fax", value |-> "+31-20-555-0001"] >>] }

GenderParts == { EmptyDict, [gender |-> "other"], [gender |-> "invalid_gender"] }

BirthDateParts == { EmptyDict, [birthDate |-> "1990-05-15"] }

AddressParts ==
    { EmptyDict,
      [address |-> << >>],
      [address |-> << [city |-> "Boston"] >>],
      [address |-> << [use |-> "work", line |-> <<"1 High St">>, city |-> "Boston",
                       state |-> "MA", postalCode |-> "02108", country |-> "USA"] >>] }

IdentifierParts ==
    { EmptyDict,
      [identifier |-> << >>],
      [identifier |-> << [value |-> "999"] >>],
      [identifier |-> << [use |-> "usual", system |-> "http://clinic.example.org/ids",
                          value |-> "999"] >>] }

ActiveParts == { EmptyDict, [active |-> FALSE] }

PartialDocuments ==
    { n @@ t @@ g @@ b @@ a @@ i @@ act :
        n \in NameParts, t \in TelecomParts, g \in GenderParts,
        b \in BirthDateParts, a \in AddressParts, i \in IdentifierParts,
        act \in ActiveParts }

UpdateInit ==
    /\ \E r \in UpdateRecords : store = (r.id :> r)
    /\ issued = {1}
    /\ deleted = {}
    /\ req = NoRequest
    /\ resp = NoResponse
    /\ flight = NoFlights
    /\ http = NoHttp
    /\ CodecIdle

UpdateNext ==
    /\ req = NoRequest
    /\ \E data \in PartialDocuments : update_patient(1, data)

UpdateSpec == UpdateInit /\ [][UpdateNext]_vars

(***************************************************************************)
(* Properties of update_patient, checked under UpdateSpec.                 *)
(***************************************************************************)

\* the columns each top-level key of the document stands for
ColumnsOf(key) ==
    CASE key = "active"     -> {"active"}
      [] key = "name"       -> {"name_use", "family_name", "given_names", "prefix", "suffix"}
      [] key = "telecom"    -> {"telecom_phone", "telecom_email"}
      [] key = "gender"     -> {"gender"}
      [] key = "birthDate"  -> {"birth_date"}
      [] key = "address"    -> {"address_use", "address_line", "address_city",
                                "address_district", "address_state",
                                "address_postal_code", "address_country"}
      [] key = "identifier" -> {"identifier_use", "identifier_system", "identifier_value"}

TopLevelKeys ==
    {"active", "name", "telecom", "gender", "birthDate", "address", "identifier"}

\* the step is a successful update of a stored row
UpdateSucceeds == req'.op = "update" /\ resp'.status = 200

\* C2: partial update preserves unspecified fields. After a successful
\* update, every column whose top-level key (active, name, telecom, gender,
\* birthDate, address, identifier) is missing from the document has the
\* value it had before.
C2_MissingKeysUntouched ==
    [][ UpdateSucceeds =>
          \A key \in TopLevelKeys \ DOMAIN req'.doc :
             \A f \in ColumnsOf(key) :
                store'[req'.id][f] = store[req'.id][f] ]_vars

C2_Witness ==
    /\ req.op = "update" /\ resp.status = 200
    /\ DOMAIN req.doc = {"name"}
    /\ store[1].family_name = "Doe-Updated"
    /\ store[1].gender = "female"
    /\ store[1].birth_date = Date(1992, 1, 1)
    /\ store[1].telecom_phone = "+1-555-123-4567"
    /\ store[1].telecom_email = "john.doe@example.com"

\* the first entry of the array under key, or the empty dict
Entry(doc, key) ==
    IF key \in DOMAIN doc /\ Len(doc[key]) > 0 THEN doc[key][1] ELSE EmptyDict

HasEntry(doc, key) == key \in DOMAIN doc /\ Len(doc[key]) > 0

\* the wire name of a column inside its name, address or identifier entry
SubFieldOf(f) ==
    CASE f = "name_use" -> "use" [] f = "family_name" -> "family"
      [] f = "given_names" -> "given" [] f = "prefix" -> "prefix"
      [] f = "suffix" -> "suffix"
      [] f = "address_use" -> "use" [] f = "address_line" -> "line"
      [] f = "address_city" -> "city" [] f = "address_district" -> "district"
      [] f = "address_state" -> "state" [] f = "address_postal_code" -> "postalCode"
      [] f = "address_country" -> "country"
      [] f = "identifier_use" -> "use" [] f = "identifier_system" -> "system"
      [] f = "identifier_value" -> "value"

\* the document does not carry column f
AbsentFrom(doc, f) ==
    CASE f \in ColumnsOf("name") -> SubFieldOf(f) \notin DOMAIN Entry(doc, "name")
      [] f \in ColumnsOf("address") -> SubFieldOf(f) \notin DOMAIN Entry(doc, "address")
      [] f \in ColumnsOf("identifier") -> SubFieldOf(f) \notin DOMAIN Entry(doc, "identifier")
      [] f = "telecom_phone" ->
            ~("telecom" \in DOMAIN doc
              /\ \E k \in 1..Len(doc.telecom) : SystemIs(doc.telecom[k], "phone"))
      [] f = "telecom_email" ->
            ~("telecom" \in DOMAIN doc
              /\ \E k \in 1..Len(doc.telecom) : SystemIs(doc.telecom[k], "email"))
      [] f = "gender" -> "gender" \notin DOMAIN doc
      [] f = "birth_date" -> "birthDate" \notin DOMAIN doc
      [] f = "active" -> "active" \notin DOMAIN doc

\* C3 as stated: after a successful update every column that is absent from
\* the document has the value it had before, the sub-fields absent from a
\* name, address or identifier entry of the document included.
C3_AbsentFieldsUntouched ==
    [][ UpdateSucceeds =>
          \A f \in WritableFields :
             AbsentFrom(req'.doc, f) => store'[req'.id][f] = store[req'.id][f] ]_vars

\* the columns an entry of the document resets when it does not carry them:
\* all of a name entry's but prefix and suffix, all of an address entry's and
\* all of an identifier entry's
ResetBy(doc) ==
    (IF HasEntry(doc, "name") THEN {"name_use", "family_name", "given_names"} ELSE {})
    \cup (IF HasEntry(doc, "address") THEN ColumnsOf("address") ELSE {})
    \cup (IF HasEntry(doc, "identifier") THEN ColumnsOf("identifier") ELSE {})

\* C3 as amended: after a successful update a column that is absent from the
\* document has the value it had before, unless it is a sub-field (other
\* than prefix and suffix) of a name, address or identifier entry that the
\* document does contain: that column is reset to its default ("usual" for
\* the name use, empty otherwise).
C3_AbsentFieldsUntouchedOrReset ==
    [][ UpdateSucceeds =>
          \A f \in WritableFields :
             AbsentFrom(req'.doc, f) =>
                store'[req'.id][f] = IF f \in ResetBy(req'.doc)
                                       THEN FieldDefaults[f]
                                       ELSE store[req'.id][f] ]_vars

C3_Witness ==
    /\ req.op = "update" /\ resp.status = 200
    /\ req.doc = [address |-> << [city |-> "Boston"] >>]
    /\ store[1].address_city = "Boston"
    /\ store[1].address_line = << >>
    /\ store[1].address_postal_code = ""
    /\ store[1].identifier_value = "12345"
    /\ store[1].prefix = "Mr."

(***************************************************************************)
(* Properties of the request handlers, checked under Spec.                 *)
(***************************************************************************)

IsOperationOutcome(body) ==
    /\ DOMAIN body = {"resourceType", "issue"}
    /\ body.resourceType = "OperationOutcome"
    /\ Len(body.issue) = 1
    /\ DOMAIN body.issue[1] = {"severity", "code", "diagnostics"}
    /\ body.issue[1].severity = "error"

\* the document lacks name (absent or an empty array), gender or birthDate
MissingRequired(doc) ==
    \/ "name" \notin DOMAIN doc
    \/ doc.name = << >>
    \/ "gender" \notin DOMAIN doc
    \/ "birthDate" \notin DOMAIN doc

\* C4: create rejects a document that is missing name (absent or an empty
\* array), gender or birthDate, whatever the other two are: the response is
\* 400 with an OperationOutcome body and the stored rows are unchanged.
C4_CreateRejectsMissingRequired ==
    [][ (/\ req'.op = "create"
         /\ req'.principal = "fhir_api_user"
         /\ MissingRequired(req'.doc))
        => /\ resp'.status = 400
           /\ IsOperationOutcome(resp'.body)
           /\ store' = store ]_vars

\* C8: the id of a row is generated on creation and immutable. A create
\* that answers 201 adds exactly one row, under an id that no stored row has
\* and that uuid4 has not returned before, whatever id the document carries,
\* and leaves every other row as it was; an update, whatever its document
\* contains, leaves the set of stored ids and the id of every row unchanged.
C8_IdGeneratedAndImmutable ==
    [][ /\ (req'.op = "create" /\ resp'.status = 201) =>
              \E new \in (DOMAIN store') \ (DOMAIN store) :
                 /\ DOMAIN store' = (DOMAIN store) \cup {new}
                 /\ new \notin issued
                 /\ store'[new].id = new
                 /\ resp'.body.id = ToString(new)
                 /\ \A i \in DOMAIN store : store'[i] = store[i]
        /\ req'.op = "update" =>
              /\ DOMAIN store' = DOMAIN store
              /\ \A i \in DOMAIN store : store'[i].id = store[i].id /\ store[i].id = i
      ]_vars

C8_Witness ==
    /\ req.op = "create" /\ resp.status = 201
    /\ "id" \in DOMAIN req.doc
    /\ resp.body.id # req.doc.id
    /\ Cardinality(DOMAIN store) = 2
    /\ \A i \in DOMAIN store : store[i].id = i

C10_UnknownIdNotFound ==
    [][ (req'.op \in {"get", "update", "delete"} /\ req'.id \notin DOMAIN store)
        => /\ resp'.status = 404
           /\ store' = store ]_vars

C10_Witness ==
    /\ req.op = "update" /\ req.doc = UpdateData
    /\ req.id \notin DOMAIN store /\ req.id \notin issued
    /\ resp.status = 404
    /\ DOMAIN store # {}

\* C13: every 4xx response of create, get, update or delete has an
\* OperationOutcome body: resourceType "OperationOutcome" and an issue array
\* whose entry has severity "error", a code and diagnostics; the 400 for
\* invalid update data included.
C13_ClientErrorsAreOperationOutcomes ==
    (req.op \in {"create", "get", "update", "delete"} /\ resp.status \in 400..499)
        => IsOperationOutcome(resp.body)

\* C14: create is gated by authentication and group membership. A create
\* without valid credentials answers 401, one by a principal outside
\* fhir_api_users answers 403, and neither changes the stored rows: every
\* create that adds a row is by an authenticated member of the group.
C14_CreateIsGated ==
    [][ req'.op = "create" =>
          /\ req'.principal = "anonymous" => (resp'.status = 401 /\ store' = store)
          /\ req'.principal = "user" => (resp'.status = 403 /\ store' = store)
          /\ store' # store => req'.principal = "fhir_api_user" ]_vars

C14_Witness ==
    /\ req.op = "create" /\ req.principal = "user"
    /\ req.doc = ValidPatientData
    /\ resp.status = 403
    /\ IsOperationOutcome(resp.body)
    /\ Cardinality(DOMAIN store) = 1

(***************************************************************************)
(* Properties of the HTTP surface, checked under HttpSpec.                 *)
(***************************************************************************)

\* the request line is method on a path of the given segments, the second
\* a well-formed id
RequestLine(method, n, last) ==
    /\ http.method = method
    /\ Len(http.path) = n
    /\ http.path[1] = "Patient"
    /\ n >= 2 => uuid_matches(http.path[2])
    /\ n = 3 => http.path[3] = last

\* C12: each documented method/path pair is dispatched to the handler of its
\* operation: GET /Patient to list (200 with a Bundle), POST /Patient to
\* create, GET /Patient/{id} to get, PUT /Patient/{id} to update and
\* DELETE /Patient/{id}/delete to delete; none is answered by another
\* operation's handler or rejected for its method.
C12_DocumentedRoutesDispatch ==
    (http # NoHttp /\ req # NoRequest) =>
        /\ RequestLine("GET", 1, "") =>
              (req.op = "list" /\ resp.status = 200 /\ resp.body.resourceType = "Bundle")
        /\ RequestLine("POST", 1, "") => req.op = "create"
        /\ RequestLine("GET", 2, "") => req.op = "get"
        /\ RequestLine("PUT", 2, "") => req.op = "update"
        /\ RequestLine("DELETE", 3, "delete") => req.op = "delete"

(***************************************************************************)
(* Properties of overlapping requests, checked under ConcSpec.             *)
(***************************************************************************)

\* C11: every list response is 200 with a Bundle whose total is the number
\* of elements of entry; entry holds the encoding of each stored row exactly
\* once, newest row first; with no stored row total is 0 and entry is empty.
C11_ListIsBundleOfAll ==
    [][ \A w \in Workers :
          (flight[w].pc = "counted" /\ flight'[w].pc = "done") =>
             LET body == flight'[w].resp.body IN
             /\ flight'[w].resp.status = 200
             /\ body.resourceType = "Bundle"
             /\ body.total = Len(body.entry)
             /\ \E row \in [DOMAIN body.entry -> DOMAIN store] :
                   /\ \A i \in DOMAIN store : \E k \in DOMAIN row : row[k] = i
                   /\ \A k, l \in DOMAIN row : k # l => row[k] # row[l]
                   /\ \A k \in DOMAIN row :
                         body.entry[k] = [resource |-> to_representation(store[row[k]])]
                   /\ \A k, l \in DOMAIN row :
                         k < l => store[row[k]].created_at >= store[row[l]].created_at
             /\ store = EmptyDict => (body.total = 0 /\ body.entry = << >>) ]_vars

\* C15: requests on different ids do not conflict. A step of a get, update
\* or delete on one id leaves the row of every other id (its presence and
\* its columns) and every other request (the instance it loaded, its
\* response) as they were, and the response of a get or of a successful
\* update is computed from the row of its own id.
C15_OtherIdsUntouched ==
    [][ \A w \in Workers :
          (flight'[w] # flight[w] /\ flight'[w].op \in {"get", "update", "delete"}) =>
             /\ \A v \in Workers \ {w} : flight'[v] = flight[v]
             /\ \A i \in Ids \ {flight'[w].id} :
                   /\ i \in DOMAIN store' <=> i \in DOMAIN store
                   /\ i \in DOMAIN store => store'[i] = store[i]
             /\ (flight'[w].op = "get" /\ flight'[w].resp.status = 200) =>
                   flight'[w].resp.body = to_representation(store[flight'[w].id])
             /\ (flight'[w].op = "update" /\ flight'[w].resp.status = 200) =>
                   flight'[w].resp.body = to_representation(store'[flight'[w].id]) ]_vars

C15_Witness ==
    \E w, v \in Workers :
        /\ flight[w].op = "delete" /\ flight[w].id = 1 /\ flight[w].resp.status = 204
        /\ flight[v].op = "update" /\ flight[v].id = 2 /\ flight[v].resp.status = 200
        /\ flight[v].doc = [gender |-> "other"]
        /\ DOMAIN store = Ids \ {1}
        /\ store[2] = [ConcStore[2] EXCEPT !.gender = "other"]

\* the updates of a row, and the row an update writes
UpdatesOf(id) == { w \in Workers : flight[w].op = "update" /\ flight[w].id = id }

Written(w) ==
    serializer_update(flight[w].patient,
                      to_internal_value(flight[w].doc, TRUE).validated)

\* C16: overlapping updates of one row are last-write-wins. When every
\* request on an existing row is an update with a valid document (or a get)
\* and all the updates have answered, each has answered 200 and the stored
\* row is the row written by the update that wrote last: its document merged
\* onto the row it had loaded.
C16_LastWriteWins ==
    \A id \in Ids :
        (/\ UpdatesOf(id) # {}
         /\ \A w \in Workers : flight[w].op = "delete" => flight[w].id # id
         /\ \A w \in UpdatesOf(id) :
               /\ flight[w].pc = "done"
               /\ to_internal_value(flight[w].doc, TRUE).errors = {})
        => /\ \A w \in UpdatesOf(id) : flight[w].resp.status = 200
           /\ LET last == CHOOSE w \in UpdatesOf(id) :
                             \A v \in UpdatesOf(id) : flight[v].wrote <= flight[w].wrote
              IN store[id] = Written(last)

\* both updates loaded the row before either wrote, and the first write is lost
C16_Witness ==
    \E w, v \in Workers :
        /\ flight[w].op = "update" /\ flight[v].op = "update"
        /\ flight[w].id = 1 /\ flight[v].id = 1
        /\ flight[w].doc = [gender |-> "other"] /\ flight[v].doc = [active |-> FALSE]
        /\ flight[w].resp.status = 200 /\ flight[v].resp.status = 200
        /\ flight[w].wrote < flight[v].wrote
        /\ flight[w].patient = ConcStore[1] /\ flight[v].patient = ConcStore[1]
        /\ store[1] = [ConcStore[1] EXCEPT !.active = FALSE]
        /\ store[1].gender # "other"

\* C17: a deleted row never reappears: once delete has answered 204 for an
\* id, no row with that id is stored in any later state.
C17_DeletedNeverReappears == \A id \in deleted : id \notin DOMAIN store

====
